---------------------------- MODULE Spec2Model ----------------------------
(***************************************************************************)
(* Model of the autonomous face-tracking controller of                     *)
(* src/src/autonomous_tracking.py with the tuning of src/src/config.py.    *)
(*                                                                         *)
(* main() is a state machine over its program counter pc: the preflight    *)
(* (battery, reference faces), the takeoff, the frame loop                 *)
(* (get_frame -> track_face [-> sleep] -> imshow)    and the        *)
(* try/except/finally shutdown.  detect_and_recognize and track_face are   *)
(* operators computed as the code computes them; SpecSelect and SpecTrack  *)
(* start at the entry of one of the two functions with its arguments drawn *)
(* from bounded sets and run it to its return.                             *)
(*                                                                         *)
(* Numbers: the gains 0.4 are kept in tenths (PID_KP = 4, GainScale = 10), *)
(* face distances and the match tolerance 0.6 likewise.  On the input sets *)
(* used here the IEEE double evaluation of line 142 followed by            *)
(* int(np.clip(..)) equals the exact evaluation in tenths truncated        *)
(* toward zero (compared value by value against the Python expression);    *)
(* outside these sets the double sum can fall just short of a whole number *)
(* (error -91, previous error -167 gives -5 where the exact value is -6).  *)
(***************************************************************************)
EXTENDS Integers, Sequences, FiniteSets, TLC

VARIABLES
    pc,          \* position of main(): see Init and the actions
    battery,     \* drone.get_battery() as read at line 177 (-1: not read)
    known,       \* len(known_encodings) after load_known_faces (line 185)
    airborne,    \* TRUE between drone.takeoff() and drone.land()
    frame,       \* the faces of the frame handed to detect_and_recognize when
                 \* it is run on its own (face locations, each with its
                 \* face_distance vector); <<>> inside main, which does not
                 \* use the frame after line 210
    face_info,   \* <<<<center_x, center_y>>, area>> returned by line 208
    prev_error,  \* main's prev_error (lines 199, 213)
    arg_prev,    \* track_face's parameter prev_error in its last call
    error_x,     \* track_face's local error_x, pending its return
    lastCmd,     \* arguments of the last drone.send_rc_control call, <<>>
                 \* before the first
    cycleSends,  \* number of send_rc_control calls made by the current cycle
    mode,        \* branch taken by the last track_face call:
                 \* "TRACKING", "SEARCHING" or "NONE" before the first
    exc,         \* what ended the loop: "none", "quit", "KeyboardInterrupt"
                 \* or "Error"
    exitAt,      \* pc at which the loop was left ("none" while it runs)
    fb_range,    \* <<FB_RANGE_MIN, FB_RANGE_MAX>> as imported at line 24
    cycleUpdates,\* number of assignments to prev_error by the current cycle
    searchRun,   \* number of consecutive search cycles completed right
                 \* before the last track_face call (counted to MaxSearchRun)
    failedCmd,   \* arguments of the send_rc_control call that raised inside
                 \* a cycle, <<>> when none did
    afterFail,   \* the send_rc_control calls made after that failure
    flightLog    \* the takeoff and land commands issued, in order

vars == <<pc, battery, known, airborne, frame, face_info, prev_error,
          arg_prev, error_x, lastCmd, cycleSends, mode, exc, exitAt,
          fb_range, cycleUpdates, searchRun, failedCmd, afterFail, flightLog>>

---------------------------------------------------------------------------
(* config.py *)

FRAME_WIDTH == 360
FRAME_HEIGHT == 240
\* gains in tenths: 0.4, 0.4, 0
PID_KP == 4
PID_KD == 4
PID_KI == 0
GainScale == 10
FB_RANGE_MIN == 3000
FB_RANGE_MAX == 5000
FB_SPEED == 25
SEARCH_SPEED == 20
MIN_BATTERY == 50
\* number of entries of KNOWN_FACES
NumKnownFaces == 2

\* bounds of np.clip at line 143
YawMin == -100
YawMax == 100
\* face_recognition.compare_faces: distance <= 0.6 is a match (tenths)
Tolerance == 6
\* float("inf") of line 82: above every face distance
Inf == 1000

---------------------------------------------------------------------------
(* bounds of the model *)

\* most faces detected in one frame
MaxFaces == 2

\* consecutive search cycles counted by searchRun
MaxSearchRun == 2

\* distance thresholds config.py can hold: its own, and two that break
\* fb_min < fb_max
Configs ==
    { <<FB_RANGE_MIN, FB_RANGE_MAX>>,
      <<FB_RANGE_MAX, FB_RANGE_MIN>>,
      <<FB_RANGE_MIN, FB_RANGE_MIN>> }

\* battery readings
Batteries == {MIN_BATTERY - 1, MIN_BATTERY, 100}

\* face locations (top, right, bottom, left) inside the 360 x 240 frame
Boxes ==
    { <<90, 205, 150, 155>>,   \* area 3000 = FB_RANGE_MIN, center x 180
      <<80, 50, 160, 0>>,      \* area 4000, center x 25
      <<60, 235, 160, 135>>,   \* area 10000, center x 185
      <<0, 1, 100, 0>>,        \* area 100, center x 0
      <<0, 1, 1, 0>>,          \* area 1, center (0, 0)
      <<50, 100, 150, 100>> }  \* area 0 (no width), center (100, 100)

\* face_distance vectors of one detected face against k known encodings
DistTuples(k) ==
    IF k = 0 THEN { <<>> }
    ELSE IF k = 1 THEN { <<4>>, <<6>>, <<7>> }
    ELSE { <<4, 7>>, <<7, 6>>, <<6, 6>>, <<7, 7>> }

Detections(k) == [box : Boxes, dists : DistTuples(k)]

Frames(k) == UNION { [1..n -> Detections(k)] : n \in 0..MaxFaces }

\* arguments of track_face when it is run on its own
TrackXs == {0, 1, 25, 177, 180, 185, 325, 360, 380}
TrackYs == {0, 120}
TrackAreas == {-400, 0, 1, 400, 2999, 3000, 3001, 4000, 4999, 5000, 5001, 10000}
TrackPrevs == {-10000, -180, -155, -3, 0, 5, 145, 180, 10000}

---------------------------------------------------------------------------
(* detect_and_recognize, lines 81-117 *)

Sentinel == <<<<0, 0>>, 0>>

\* np.argmin: the first index of the least element
ArgMin(d) ==
    CHOOSE i \in 1..Len(d) :
        /\ \A j \in 1..Len(d) : d[i] <= d[j]
        /\ \A j \in 1..(i - 1) : d[j] > d[i]

\* lines 90-92 without the test of line 92: every face compared is a match
RecognizedAnyFace(det) == Len(det.dists) > 0

\* lines 90-92: the face matches a known encoding
Recognized(det) ==
    /\ Len(det.dists) > 0
    /\ det.dists[ArgMin(det.dists)] <= Tolerance

\* face_distances[best_match_index]
Distance(det) == det.dists[ArgMin(det.dists)]

\* lines 96-98 on (top, right, bottom, left)
InfoOf(box) ==
    LET top == box[1]
        right == box[2]
        bottom == box[3]
        left == box[4]
    IN  << << (left + right) \div 2, (top + bottom) \div 2 >>,
           (right - left) * (bottom - top) >>

\* line 101 with <= for <: among equal distances the last face wins
CloserOrEqual(d, best_distance) == d <= best_distance

\* line 101
Closer(d, best_distance) == d < best_distance

\* one iteration of the loop of line 84 on (best_info, best_distance)
ScanStep(det, best) ==
    IF Recognized(det) /\ Closer(Distance(det), best.distance)
    THEN [info |-> InfoOf(det.box), distance |-> Distance(det)]
    ELSE best

RECURSIVE Scan(_, _, _)
Scan(f, i, best) ==
    IF i > Len(f) THEN best ELSE Scan(f, i + 1, ScanStep(f[i], best))

detect_and_recognize(f) ==
    Scan(f, 1, [info |-> Sentinel, distance |-> Inf]).info

---------------------------------------------------------------------------
(* track_face, lines 137-167 *)

\* a clip that wraps around the range instead of saturating
ClipWrap(v, lo, hi) == lo + ((v - lo) % (hi - lo + 1))

\* np.clip
Clip(v, lo, hi) == IF v < lo THEN lo ELSE IF v > hi THEN hi ELSE v

\* int() of a float given as n/d: truncation toward zero
TruncDiv(n, d) == IF n >= 0 THEN n \div d ELSE -((-n) \div d)

\* line 141
ErrorX(x, frame_width) == x - (frame_width \div 2)

\* lines 142-143, in tenths until int()
SpeedX(e, p) ==
    TruncDiv(Clip(PID_KP * e + PID_KD * (e - p),
                  YawMin * GainScale, YawMax * GainScale), GainScale)

\* the chain of lines 146-152 with the thresholds counted as too close and
\* too far (>= and <= for > and < at lines 148 and 150, tested first)
BandInclusive(area) ==
    IF area >= FB_RANGE_MAX THEN "close"
    ELSE IF 0 < area /\ area <= FB_RANGE_MIN THEN "far"
    ELSE IF FB_RANGE_MIN < area /\ area < FB_RANGE_MAX THEN "optimal"
    ELSE IF area = 0 THEN "lost"
    ELSE "none"

\* the if/elif chain of lines 146-152 on the imported thresholds
Band(area) ==
    IF fb_range[1] < area /\ area < fb_range[2] THEN "optimal"
    ELSE IF area > fb_range[2] THEN "close"
    ELSE IF 0 < area /\ area < fb_range[1] THEN "far"
    ELSE IF area = 0 THEN "lost"
    ELSE "none"

\* fb without the dead zone: one threshold splits retreat from approach
FbNoDeadZone(area) ==
    IF area > FB_RANGE_MIN THEN -FB_SPEED
    ELSE IF area > 0 THEN FB_SPEED
    ELSE 0

\* fb as lines 138, 147, 149, 151 leave it
Fb(area) ==
    IF Band(area) = "close" THEN -FB_SPEED
    ELSE IF Band(area) = "far" THEN FB_SPEED
    ELSE 0

SearchCmd == <<0, 0, 0, SEARCH_SPEED>>

\* the search branch without line 155: the error of line 141 is returned
SearchBranchKeepsError(e) ==
    [sends |-> << SearchCmd >>, ret |-> e, delay |-> TRUE,
     branch |-> "SEARCHING"]

\* the search branch without the return of line 158: control falls through
\* to line 166, which sends a second command
SearchBranchFallsThrough(e) ==
    [sends |-> << SearchCmd, <<0, 0, 0, 0>> >>, ret |-> 0, delay |-> TRUE,
     branch |-> "SEARCHING"]

\* lines 153-158: the search branch, which overrides the error e of line 141
SearchBranch(e) ==
    [sends |-> << SearchCmd >>, ret |-> 0, delay |-> TRUE,
     branch |-> "SEARCHING"]

\* lines 160-167 with fb passed as the first argument of line 166
TrackBranchSwapsAxes(x, area, e, s) ==
    LET speed_x == IF x = 0 THEN 0 ELSE s
        err == IF x = 0 THEN 0 ELSE e
    IN  [sends |-> << <<Fb(area), 0, 0, speed_x>> >>, ret |-> err,
         delay |-> FALSE, branch |-> "TRACKING"]

\* lines 160-167 with the settle delay before the return of line 167 too
TrackBranchDelays(x, area, e, s) ==
    LET speed_x == IF x = 0 THEN 0 ELSE s
        err == IF x = 0 THEN 0 ELSE e
    IN  [sends |-> << <<0, Fb(area), 0, speed_x>> >>, ret |-> err,
         delay |-> TRUE, branch |-> "TRACKING"]

\* lines 165-167 without the reset of lines 161-163
TrackBranchNoReset(x, area, e, s) ==
    [sends |-> << <<0, Fb(area), 0, s>> >>, ret |-> e,
     delay |-> FALSE, branch |-> "TRACKING"]

\* lines 160-167: the x == 0 reset and the tracking command
TrackBranch(x, area, e, s) ==
    LET speed_x == IF x = 0 THEN 0 ELSE s
        err == IF x = 0 THEN 0 ELSE e
    IN  [sends |-> << <<0, Fb(area), 0, speed_x>> >>, ret |-> err,
         delay |-> FALSE, branch |-> "TRACKING"]

\* the whole call: the commands it sends in order, the value it returns and
\* whether it sleeps SEARCH_DELAY before returning
track_face(info, frame_width, p) ==
    LET x == info[1][1]
        area == info[2]
        e == ErrorX(x, frame_width)
        s == SpeedX(e, p)
    IN  IF Band(area) = "lost" THEN SearchBranch(e)
        ELSE TrackBranch(x, area, e, s)

---------------------------------------------------------------------------
(* main, lines 170-232 *)

ZeroCmd == <<0, 0, 0, 0>>

\* line 228
ShutdownCmd == ZeroCmd

\* positions inside the try block of lines 201-220
InTry == {"get_frame", "track_face", "sleep", "imshow"}

Min2(a, b) == IF a <= b THEN a ELSE b

\* the state before main runs, but for the imported thresholds
Startup ==
    /\ pc = "connect"
    /\ battery = -1
    /\ known = 0
    /\ airborne = FALSE
    /\ frame = <<>>
    /\ face_info = Sentinel
    /\ prev_error = 0
    /\ arg_prev = 0
    /\ error_x = 0
    /\ lastCmd = <<>>
    /\ cycleSends = 0
    /\ mode = "NONE"
    /\ exc = "none"
    /\ exitAt = "none"
    /\ cycleUpdates = 0
    /\ searchRun = 0
    /\ failedCmd = <<>>
    /\ afterFail = <<>>
    /\ flightLog = <<>>

Init ==
    /\ Startup
    /\ fb_range = <<FB_RANGE_MIN, FB_RANGE_MAX>>

\* a battery check that never fails
LowBatteryNever(b) == FALSE

\* line 180
LowBattery(b) == b < MIN_BATTERY

\* lines 174-182: connect, read the battery, exit when it is too low
Connect ==
    /\ pc = "connect"
    /\ \E b \in Batteries :
          /\ battery' = b
          /\ pc' = IF LowBattery(b) THEN "exit" ELSE "load_faces"
    /\ UNCHANGED <<known, airborne, frame, face_info, prev_error, arg_prev, error_x,
                   lastCmd, cycleSends, mode, exc, exitAt>>
    /\ UNCHANGED <<fb_range, cycleUpdates, searchRun, failedCmd, afterFail,
                   flightLog>>

\* lines 185-190: each reference image loads or is skipped (lines 44-55)
LoadKnownFaces ==
    /\ pc = "load_faces"
    /\ \E n \in 0..NumKnownFaces :
          /\ known' = n
          /\ pc' = IF n = 0 THEN "exit" ELSE "takeoff"
    /\ UNCHANGED <<battery, airborne, frame, face_info, prev_error, arg_prev, error_x,
                   lastCmd, cycleSends, mode, exc, exitAt>>
    /\ UNCHANGED <<fb_range, cycleUpdates, searchRun, failedCmd, afterFail,
                   flightLog>>

\* lines 193-199
Takeoff ==
    /\ pc = "takeoff"
    /\ airborne' = TRUE
    /\ flightLog' = Append(flightLog, "takeoff")
    /\ prev_error' = 0
    /\ pc' = "get_frame"
    /\ UNCHANGED <<battery, known, frame, face_info, arg_prev, error_x, lastCmd,
                   cycleSends, mode, exc, exitAt>>
    /\ UNCHANGED <<fb_range, cycleUpdates, searchRun, failedCmd, afterFail>>

\* lines 204-210: a cycle begins; the faces of the next frame are detected
\* and the target is selected
GetFrame ==
    /\ pc = "get_frame"
    /\ \E f \in Frames(known) : face_info' = detect_and_recognize(f)
    /\ cycleSends' = 0
    /\ cycleUpdates' = 0
    /\ pc' = "track_face"
    /\ UNCHANGED <<battery, known, airborne, frame, prev_error, arg_prev, error_x,
                   lastCmd, mode, exc, exitAt>>
    /\ UNCHANGED <<fb_range, searchRun, failedCmd, afterFail, flightLog>>

\* the call of lines 208-210 on a given frame
Detect ==
    /\ pc = "detect"
    /\ face_info' = detect_and_recognize(frame)
    /\ pc' = "track_face"
    /\ UNCHANGED <<battery, known, airborne, frame, prev_error, arg_prev, error_x,
                   lastCmd, cycleSends, mode, exc, exitAt>>
    /\ UNCHANGED <<fb_range, cycleUpdates, searchRun, failedCmd, afterFail,
                   flightLog>>

Last(s) == s[Len(s)]

\* line 213 with the value returned by track_face thrown away
NextPrevErrorDiscarded(prev, ret) == prev

\* the assignment of line 213: prev_error = track_face(...)
NextPrevError(prev, ret) == ret

\* line 213 up to the return of a tracking call, or up to the sleep of a
\* search call
TrackFace ==
    /\ pc = "track_face"
    /\ LET r == track_face(face_info, FRAME_WIDTH, prev_error)
       IN  /\ lastCmd' = Last(r.sends)
           /\ cycleSends' = cycleSends + Len(r.sends)
           /\ arg_prev' = prev_error
           /\ error_x' = r.ret
           /\ mode' = r.branch
           /\ prev_error' = IF r.delay THEN prev_error
                            ELSE NextPrevError(prev_error, r.ret)
           /\ cycleUpdates' = IF r.delay THEN cycleUpdates
                              ELSE cycleUpdates + 1
           /\ pc' = IF r.delay THEN "sleep" ELSE "imshow"
    /\ searchRun' = IF mode = "SEARCHING"
                    THEN Min2(searchRun + 1, MaxSearchRun) ELSE 0
    /\ UNCHANGED <<battery, known, airborne, frame, face_info, exc, exitAt>>
    /\ UNCHANGED <<fb_range, failedCmd, afterFail, flightLog>>

\* line 156 or line 166 raises: the command was handed to send_rc_control,
\* the call does not return and the error leaves track_face and the loop
SendFails ==
    /\ pc = "track_face"
    /\ LET r == track_face(face_info, FRAME_WIDTH, prev_error)
       IN  /\ lastCmd' = r.sends[1]
           /\ failedCmd' = r.sends[1]
    /\ cycleSends' = cycleSends + 1
    /\ arg_prev' = prev_error
    /\ pc' = "finally"
    /\ exc' = "Error"
    /\ exitAt' = pc
    /\ UNCHANGED <<battery, known, airborne, frame, face_info, prev_error,
                   error_x, mode>>
    /\ UNCHANGED <<fb_range, cycleUpdates, searchRun, afterFail, flightLog>>

\* lines 157-158 and the assignment of line 213
SearchDelay ==
    /\ pc = "sleep"
    /\ prev_error' = NextPrevError(prev_error, error_x)
    /\ cycleUpdates' = cycleUpdates + 1
    /\ pc' = "imshow"
    /\ UNCHANGED <<battery, known, airborne, frame, face_info, arg_prev, error_x,
                   lastCmd, cycleSends, mode, exc, exitAt>>
    /\ UNCHANGED <<fb_range, searchRun, failedCmd, afterFail, flightLog>>

\* lines 216-220: the next cycle, or 'q' breaks the loop
ShowAndPoll ==
    /\ pc = "imshow"
    /\ \E quit \in BOOLEAN :
          IF quit
          THEN /\ pc' = "finally"
               /\ exc' = "quit"
               /\ exitAt' = pc
          ELSE /\ pc' = "get_frame"
               /\ UNCHANGED <<exc, exitAt>>
    /\ UNCHANGED <<battery, known, airborne, frame, face_info, prev_error,
                   arg_prev, error_x, lastCmd, cycleSends, mode>>
    /\ UNCHANGED <<fb_range, cycleUpdates, searchRun, failedCmd, afterFail,
                   flightLog>>

\* lines 222-223: Ctrl-C anywhere inside the try block
KeyboardInterrupt ==
    /\ pc \in InTry
    /\ pc' = "finally"
    /\ exc' = "KeyboardInterrupt"
    /\ exitAt' = pc
    /\ UNCHANGED <<battery, known, airborne, frame, face_info, prev_error,
                   arg_prev, error_x, lastCmd, cycleSends, mode>>
    /\ UNCHANGED <<fb_range, cycleUpdates, searchRun, failedCmd, afterFail,
                   flightLog>>

\* a call of the cycle raises before anything is sent (no frame, a cv2
\* error): only the finally clause handles it
RaiseError ==
    /\ pc \in InTry \ {"sleep"}
    /\ pc' = "finally"
    /\ exc' = "Error"
    /\ exitAt' = pc
    /\ UNCHANGED <<battery, known, airborne, frame, face_info, prev_error,
                   arg_prev, error_x, lastCmd, cycleSends, mode>>
    /\ UNCHANGED <<fb_range, cycleUpdates, searchRun, failedCmd, afterFail,
                   flightLog>>

\* a finally clause that lands without stopping the motion first
FinallySendsNothing == <<>>

\* a finally clause that sends the failed command again before the stop
FinallySendsRetry ==
    IF failedCmd = <<>> THEN << ShutdownCmd >>
    ELSE << failedCmd, ShutdownCmd >>

\* the commands the finally clause sends before landing, lines 225-228
FinallySends == << ShutdownCmd >>

\* the calls made after a failed send, extended by those of the finally
\* clause
AfterFailWith(cmds) ==
    IF failedCmd = <<>> THEN afterFail ELSE afterFail \o cmds

Finally ==
    /\ pc = "finally"
    /\ lastCmd' = IF FinallySends = <<>> THEN lastCmd ELSE Last(FinallySends)
    /\ afterFail' = AfterFailWith(FinallySends)
    /\ pc' = "land"
    /\ UNCHANGED <<battery, known, airborne, frame, face_info, prev_error,
                   arg_prev, error_x, cycleSends, mode, exc, exitAt>>
    /\ UNCHANGED <<fb_range, cycleUpdates, searchRun, failedCmd, flightLog>>

\* line 228 raises: the stop command was handed to send_rc_control, lines
\* 229-232 are skipped and the error leaves main with the drone in the air
FinallySendFails ==
    /\ pc = "finally"
    /\ FinallySends # <<>>
    /\ lastCmd' = FinallySends[1]
    /\ afterFail' = AfterFailWith(<< FinallySends[1] >>)
    /\ exc' = "Error"
    /\ pc' = "raised"
    /\ UNCHANGED <<battery, known, airborne, frame, face_info, prev_error,
                   arg_prev, error_x, cycleSends, mode, exitAt>>
    /\ UNCHANGED <<fb_range, cycleUpdates, searchRun, failedCmd, flightLog>>

\* lines 229-232; an Error propagates out of main afterwards
Land ==
    /\ pc = "land"
    /\ airborne' = FALSE
    /\ flightLog' = Append(flightLog, "land")
    /\ pc' = IF exc = "Error" THEN "raised" ELSE "done"
    /\ UNCHANGED <<battery, known, frame, face_info, prev_error, arg_prev, error_x,
                   lastCmd, cycleSends, mode, exc, exitAt>>
    /\ UNCHANGED <<fb_range, cycleUpdates, searchRun, failedCmd, afterFail>>

Next ==
    \/ Connect
    \/ LoadKnownFaces
    \/ Takeoff
    \/ GetFrame
    \/ TrackFace
    \/ SendFails
    \/ SearchDelay
    \/ ShowAndPoll
    \/ KeyboardInterrupt
    \/ RaiseError
    \/ Finally
    \/ FinallySendFails
    \/ Land

Spec == Init /\ [][Next]_vars

---------------------------------------------------------------------------
(* main under every configuration of the distance thresholds               *)

InitConfig ==
    /\ Startup
    /\ fb_range \in Configs

SpecConfig == InitConfig /\ [][Next]_vars

---------------------------------------------------------------------------
(* detect_and_recognize on its own: every frame, every number of known     *)
(* encodings                                                               *)

\* the state at the entry of a call inside the loop, but for its arguments
InLoop ==
    /\ battery = MIN_BATTERY
    /\ airborne = TRUE
    /\ error_x = 0
    /\ arg_prev = 0
    /\ lastCmd = <<>>
    /\ cycleSends = 0
    /\ mode = "NONE"
    /\ exc = "none"
    /\ exitAt = "none"
    /\ fb_range = <<FB_RANGE_MIN, FB_RANGE_MAX>>
    /\ cycleUpdates = 0
    /\ searchRun = 0
    /\ failedCmd = <<>>
    /\ afterFail = <<>>
    /\ flightLog = << "takeoff" >>

InitSelect ==
    /\ InLoop
    /\ pc = "detect"
    /\ known \in 0..NumKnownFaces
    /\ frame \in Frames(known)
    /\ face_info = Sentinel
    /\ prev_error = 0

NextSelect == Detect

SpecSelect == InitSelect /\ [][NextSelect]_vars

---------------------------------------------------------------------------
(* track_face on its own: every target and every previous error            *)

InitTrack ==
    /\ InLoop
    /\ pc = "track_face"
    /\ known = NumKnownFaces
    /\ frame = <<>>
    /\ face_info \in { <<<<x, y>>, a>> : x \in TrackXs, y \in TrackYs,
                                        a \in TrackAreas }
    /\ prev_error \in TrackPrevs

NextTrack == TrackFace \/ SearchDelay

SpecTrack == InitTrack /\ [][NextTrack]_vars

---------------------------------------------------------------------------
(* Properties of the shutdown path (Spec)                                  *)

Terminated == pc \in {"land", "done", "raised"}

\* C1: whenever the loop has terminated (quit key, KeyboardInterrupt or an
\* error raised in a cycle), whichever branch was active and wherever the
\* loop was left (the settle delay included), the last command sent to the
\* drone is the all-zero command: nothing is sent after it.
C1_LastCommandIsStop == Terminated => lastCmd = ZeroCmd

\* the loop was interrupted during the settle delay of a search cycle, the
\* search command being the last one sent by a cycle, and main has ended
C1_Witness ==
    /\ pc = "done"
    /\ exc = "KeyboardInterrupt"
    /\ exitAt = "sleep"
    /\ mode = "SEARCHING"
    /\ lastCmd = ZeroCmd

---------------------------------------------------------------------------
(* Properties of track_face (SpecTrack)                                    *)

\* track_face has sent its command (it sleeps or has returned)
Acted == pc \in {"sleep", "imshow"}

TargetX == face_info[1][1]
TargetArea == face_info[2]

InActuationRange(cmd) == \A i \in 1..Len(cmd) : cmd[i] >= -100 /\ cmd[i] <= 100

\* C2: every component of every command sent by track_face, and of the
\* shutdown command, lies in [-100, 100], whatever the target x, the
\* previous error and the area; the yaw is saturated, not wrapped.
C2_CommandsInRange ==
    /\ InActuationRange(lastCmd)
    /\ InActuationRange(ShutdownCmd)
    /\ (pc = "imshow" /\ mode = "TRACKING" /\ TargetX # 0) =>
          LET e == TargetX - FRAME_WIDTH \div 2
              raw == PID_KP * e + PID_KD * (e - arg_prev)
          IN  /\ (raw >= 100 * GainScale => lastCmd[4] = 100)
              /\ (raw <= -100 * GainScale => lastCmd[4] = -100)

\* a tracking command whose yaw was saturated from a raw speed far outside
\* the range: x = 360 (error 180) against a previous error of -10000
C2_Witness ==
    /\ pc = "imshow"
    /\ mode = "TRACKING"
    /\ TargetX = 360
    /\ arg_prev = -10000
    /\ PID_KP * 180 + PID_KD * (180 - arg_prev) > 4 * 100 * GainScale
    /\ lastCmd[4] = 100

\* C3: a cycle whose target has area 0 sends exactly one command,
\* (0, 0, 0, SEARCH_SPEED), and returns 0 as the next previous error,
\* whatever the target x and the prior previous error.
C3_ZeroAreaSearches ==
    (Acted /\ TargetArea = 0) =>
        /\ lastCmd = <<0, 0, 0, SEARCH_SPEED>>
        /\ cycleSends = 1
        /\ error_x = 0
        /\ (pc = "imshow" => prev_error = 0)

\* a returned search cycle whose target had a nonzero x and whose prior
\* previous error was nonzero
C3_Witness ==
    /\ pc = "imshow"
    /\ TargetArea = 0
    /\ TargetX = 325
    /\ arg_prev = 145
    /\ prev_error = 0
    /\ lastCmd = SearchCmd

\* C4 as stated: area >= fb_max gives -fb_speed and 0 < area <= fb_min gives
\* +fb_speed, the two thresholds included.
C4_Claim ==
    Acted =>
        /\ (TargetArea >= FB_RANGE_MAX => lastCmd[2] = -FB_SPEED)
        /\ (0 < TargetArea /\ TargetArea <= FB_RANGE_MIN
                => lastCmd[2] = FB_SPEED)

\* C4 amended: area > fb_max gives -fb_speed and 0 < area < fb_min gives
\* +fb_speed; at area = fb_min and at area = fb_max the forward/back
\* component is 0 and the cycle is a tracking cycle.
C4_StrictBands ==
    Acted =>
        /\ (TargetArea > FB_RANGE_MAX => lastCmd[2] = -FB_SPEED)
        /\ (0 < TargetArea /\ TargetArea < FB_RANGE_MIN
                => lastCmd[2] = FB_SPEED)
        /\ (TargetArea \in {FB_RANGE_MIN, FB_RANGE_MAX}
                => lastCmd[2] = 0 /\ mode = "TRACKING")

\* a cycle on a target of area exactly fb_max has sent its command
C4_Witness ==
    /\ pc = "imshow"
    /\ TargetArea = FB_RANGE_MAX
    /\ TargetX = 185
    /\ lastCmd[2] = 0

\* C5: for fb_min < area < fb_max the forward/back component is 0 and the
\* cycle is a tracking cycle: one command, no search command, no delay.
C5_DeadZone ==
    (pc # "track_face" /\ FB_RANGE_MIN < TargetArea /\ TargetArea < FB_RANGE_MAX) =>
        /\ pc = "imshow"
        /\ mode = "TRACKING"
        /\ cycleSends = 1
        /\ lastCmd[1] = 0 /\ lastCmd[2] = 0 /\ lastCmd[3] = 0

\* the scenario area = 4000 has run, with a nonzero yaw
C5_Witness ==
    /\ pc = "imshow"
    /\ TargetArea = 4000
    /\ TargetX = 25
    /\ lastCmd = <<0, 0, 0, -100>>

\* C6 as stated: a negative area is treated as "no target": the search
\* command is sent and 0 is returned.
C6_Claim ==
    (Acted /\ TargetArea < 0) =>
        /\ mode = "SEARCHING"
        /\ lastCmd = SearchCmd
        /\ error_x = 0

\* the yaw of the claim: kp*error + kd*(error - previous_error), saturated to
\* [-100, 100], in whole units
C7_Yaw(e, p) ==
    LET raw == PID_KP * e + PID_KD * (e - p)
        sat == IF raw < -100 * GainScale THEN -100 * GainScale
               ELSE IF raw > 100 * GainScale THEN 100 * GainScale
               ELSE raw
    IN  IF sat >= 0 THEN sat \div GainScale ELSE -((-sat) \div GainScale)

\* C7 as stated: on a cycle with a valid target (area > 0) the yaw sent is
\* the saturated PD output for error = x - frame_width/2 and that error is
\* returned; x = 0 with previous error 0 gives error -180 and yaw -100.
C7_Claim ==
    (pc = "imshow" /\ TargetArea > 0) =>
        /\ lastCmd[4] = C7_Yaw(TargetX - FRAME_WIDTH \div 2, arg_prev)
        /\ prev_error = TargetX - FRAME_WIDTH \div 2

---------------------------------------------------------------------------
(* Properties of detect_and_recognize (SpecSelect)                         *)

\* the recognition distance of a face: the least of its face distances
LeastDistance(det) ==
    CHOOSE d \in { det.dists[i] : i \in 1..Len(det.dists) } :
        \A i \in 1..Len(det.dists) : d <= det.dists[i]

\* the faces of the frame that match a known encoding
RecognizedFaces(f) ==
    { i \in 1..Len(f) : \E n \in 1..Len(f[i].dists) : f[i].dists[n] <= 6 }

\* the first of the recognized faces of least recognition distance
BestFace(f) ==
    CHOOSE i \in RecognizedFaces(f) :
        \A j \in RecognizedFaces(f) :
            \/ LeastDistance(f[i]) < LeastDistance(f[j])
            \/ LeastDistance(f[i]) = LeastDistance(f[j]) /\ i <= j

\* center and area of face i of the frame
FaceInfo(f, i) ==
    << << (f[i].box[4] + f[i].box[2]) \div 2,
          (f[i].box[1] + f[i].box[3]) \div 2 >>,
       (f[i].box[2] - f[i].box[4]) * (f[i].box[3] - f[i].box[1]) >>

Selected == pc = "track_face"

\* C8: with two or more recognized faces the target is the recognized face
\* of lowest recognition distance, the first in input order among equals;
\* a face that is not recognized is never the target.
C8_BestMatchFirstWins ==
    Selected =>
        /\ (Cardinality(RecognizedFaces(frame)) >= 2
              => face_info = FaceInfo(frame, BestFace(frame)))
        /\ (face_info # Sentinel
              => \E i \in RecognizedFaces(frame) : face_info = FaceInfo(frame, i))

\* two recognized faces of equal distance and different boxes: the first
\* was selected
C8_Witness ==
    /\ Selected
    /\ Len(frame) = 2
    /\ RecognizedFaces(frame) = {1, 2}
    /\ LeastDistance(frame[1]) = LeastDistance(frame[2])
    /\ FaceInfo(frame, 1) # FaceInfo(frame, 2)
    /\ face_info = FaceInfo(frame, 1)

\* C9: with no recognized face (the empty frame, unknown faces only) the
\* target is the sentinel, center (0, 0) and area 0.
C9_NoneRecognizedSentinel ==
    (Selected /\ RecognizedFaces(frame) = {}) => face_info = <<<<0, 0>>, 0>>

\* a frame of two faces, both compared with two known encodings and both
\* unknown
C9_Witness ==
    /\ Selected
    /\ known = 2
    /\ Len(frame) = 2
    /\ RecognizedFaces(frame) = {}
    /\ face_info = Sentinel

---------------------------------------------------------------------------
(* Properties of the cycle (Spec)                                          *)

\* C10: a cycle sends exactly one command, on the tracking branch and on the
\* search branch alike: none before track_face acts, one once it has.
C10_OneCommandPerCycle ==
    /\ (pc = "track_face" => cycleSends = 0)
    /\ (pc \in {"sleep", "imshow"} => cycleSends = 1)

\* a search cycle has completed after an earlier tracking cycle that left a
\* nonzero error
C10_Witness ==
    /\ pc = "imshow"
    /\ mode = "SEARCHING"
    /\ arg_prev # 0
    /\ cycleSends = 1

---------------------------------------------------------------------------
(* Properties of the controller state across cycles (Spec)                 *)

InLoopBody == pc \in {"get_frame", "track_face", "sleep", "imshow"}

C11_State ==
    /\ (InLoopBody /\ mode = "NONE") => prev_error = 0
    /\ (pc \in {"get_frame", "track_face", "imshow"} /\ mode # "NONE")
          => prev_error = error_x
    /\ (pc \in {"track_face", "sleep"} => cycleUpdates = 0)
    /\ (pc = "imshow" => cycleUpdates = 1)

C11_Step ==
    /\ (pc = "track_face" /\ pc' \in {"sleep", "imshow"})
          => arg_prev' = (IF mode = "NONE" THEN 0 ELSE error_x)
    /\ (pc \notin {"takeoff", "track_face", "sleep"})
          => prev_error' = prev_error

\* C11: prev_error is 0 before the first cycle; each cycle assigns it exactly
\* once, on the tracking and on the search branch; the value a cycle returns
\* is the previous error the next cycle is called with, and no step between
\* two cycles writes it.
C11_StateThreaded == []C11_State /\ [][C11_Step]_vars

\* a cycle called with the nonzero error returned by the cycle before it has
\* returned another error
C11_Witness ==
    /\ pc = "imshow"
    /\ arg_prev = -155
    /\ prev_error = 5
    /\ cycleUpdates = 1

---------------------------------------------------------------------------
(* Property of the startup under every configuration (SpecConfig)          *)

\* C12 as stated: with fb_min >= fb_max main fails before takeoff, so that
\* nothing flies, no cycle runs and no command is sent.
C12_Claim ==
    (fb_range[1] >= fb_range[2]) =>
        /\ pc \in {"connect", "load_faces", "exit"}
        /\ flightLog = <<>>
        /\ lastCmd = <<>>

---------------------------------------------------------------------------
(* Properties of the whole program (Spec)                                  *)

\* C13: when a send raises inside a cycle, the failed command is not sent
\* again, and the stop command (0, 0, 0, 0) has been handed to the sink,
\* once, when the failure leaves main.
C13_StopAttemptedNoRetry ==
    (failedCmd # <<>>) =>
        /\ afterFail \in { <<>>, << <<0, 0, 0, 0>> >> }
        /\ (pc \in {"land", "done", "raised"}
              => afterFail = << <<0, 0, 0, 0>> >>)

\* the send of a search command raised and the error has left main
C13_Witness ==
    /\ pc = "raised"
    /\ failedCmd = SearchCmd
    /\ afterFail = << ZeroCmd >>
    /\ flightLog = << "takeoff", "land" >>

\* C14: in every command sent (tracking, search, shutdown) the lateral and
\* the vertical component are 0 and the forward/back component is one of
\* -fb_speed, 0, +fb_speed.
C14_OnlyYawAndForwardBack ==
    (lastCmd # <<>>) =>
        /\ Len(lastCmd) = 4
        /\ lastCmd[1] = 0
        /\ lastCmd[3] = 0
        /\ lastCmd[2] \in {-FB_SPEED, 0, FB_SPEED}

\* a tracking command with both controlled components nonzero
C14_Witness ==
    /\ pc = "imshow"
    /\ lastCmd[2] = -FB_SPEED
    /\ lastCmd[4] # 0

\* C15 as stated (SpecSelect): the target has area >= 0, and its center is
\* (0, 0) exactly when its area is 0.
C15_Claim ==
    Selected =>
        /\ face_info[2] >= 0
        /\ (face_info[1] = <<0, 0>> <=> face_info[2] = 0)

\* C16 as stated: a cycle searches exactly when its target is the sentinel
\* ([0, 0], 0), and a cycle with any other target tracks, whatever the cycles
\* before it did.
C16_Claim ==
    Acted =>
        /\ (mode = "SEARCHING" <=> face_info = Sentinel)
        /\ (mode = "TRACKING" <=> face_info # Sentinel)

\* C17 as stated: on the first tracking cycle after one or more search
\* cycles the previous error is 0 and the yaw sent is the saturated
\* kp*error + kd*error for error = x - frame_width/2.
C17_Claim ==
    (pc = "imshow" /\ mode = "TRACKING" /\ searchRun >= 1) =>
        /\ arg_prev = 0
        /\ lastCmd[4] = C7_Yaw(TargetX - FRAME_WIDTH \div 2, 0)

C18_State ==
    (pc = "sleep") =>
        /\ mode = "SEARCHING"
        /\ lastCmd = SearchCmd
        /\ cycleSends = 1

C18_Step ==
    /\ (pc' = "imshow")
          => \/ mode' = "SEARCHING" /\ pc = "sleep"
             \/ mode' = "TRACKING" /\ pc = "track_face"
    /\ (pc' = "get_frame") => pc \in {"takeoff", "imshow"}

\* C18: only a search cycle sleeps: the delay comes after its one command
\* and before the cycle completes and the next frame is read; a tracking
\* cycle completes without passing through the delay.
C18_DelayOnlyWhenSearching == []C18_State /\ [][C18_Step]_vars

\* a second search cycle in a row is in its delay, its command sent
C18_Witness ==
    /\ pc = "sleep"
    /\ searchRun = 1
    /\ lastCmd = SearchCmd
    /\ cycleSends = 1
    /\ cycleUpdates = 0

NothingFlown == flightLog = <<>> /\ lastCmd = <<>> /\ ~airborne

\* C19: with a battery reading below the minimum, or with no reference
\* encoding loaded, main exits before takeoff: no takeoff, landing or motion
\* command is issued; the loop runs only after both checks passed.
C19_PreflightGuardsLoop ==
    /\ (battery # -1 /\ battery < MIN_BATTERY) => (pc = "exit" /\ NothingFlown)
    /\ (pc \notin {"connect", "load_faces"} /\ known = 0)
          => (pc = "exit" /\ NothingFlown)
    /\ (pc = "exit" => NothingFlown)
    /\ (InLoopBody \/ flightLog # <<>>) => (battery >= MIN_BATTERY /\ known >= 1)

\* main has exited on a battery reading of 49
C19_Witness ==
    /\ pc = "exit"
    /\ battery = MIN_BATTERY - 1
    /\ flightLog = <<>>

---------------------------------------------------------------------------
(* Property of track_face at x = 0 (SpecTrack)                             *)

===========================================================================
